---- MODULE Spec2Model ----
(***************************************************************************)
(* Execution and interface-binding engine: ExecutionManager.run driving   *)
(* Worker.run over the inputs bound by NodeInterfaceManager, with the     *)
(* PipeLog / DataBlockLog tables of the metadata session.                 *)
(*                                                                         *)
(* A block id is its position in `blocks`, a PipeLog id its position in   *)
(* `pipe_logs`; 0 stands for None.                                         *)
(***************************************************************************)
EXTENDS Integers, Sequences, FiniteSets, TLC

\* ------------------------------------------------------------------ bounds
\* Largest number of DataBlock rows the metadata session ever holds.
MaxBlocks == 3
\* n_runs is only ever compared with 0 by the code; it is kept exact up to here.
MaxRuns == MaxBlocks + 1
\* Largest number of DataBlockLog rows the metadata session ever holds; calls
\* that end do not get there.
MaxRows == 4 * MaxBlocks
\* Latest instant the clock is followed to; later readings return it again.
MaxClock == 2
\* Longest runtime list of an execution context.
MaxRuntimes == 2

\* ------------------------------------------------------------ the graph
Nodes == {"src", "agg", "n"}

\* DataFunctionAnnotation of one parameter, with the node it is connected to
GSlot(name, cls, optional, self_ref, up, otype) ==
    [name |-> name, cls |-> cls, is_optional |-> optional,
     is_self_ref |-> self_ref, input_node |-> up, otype_like |-> otype]

\* ... without a schema reference: otype_like defaults to "Any"
Slot(name, cls, optional, self_ref, up) ==
    GSlot(name, cls, optional, self_ref, up, "Any")

\* Signatures tried for node "n" (one is chosen per behaviour).
XformInputs    == << Slot("input", "DataBlock", FALSE, FALSE, "src") >>
NeverStopInputs == << Slot("input", "DataBlock", TRUE, FALSE, "src") >>
JoinInputs     == << Slot("a", "DataBlock", FALSE, FALSE, "src"),
                     Slot("b", "DataSet", TRUE, FALSE, "agg") >>
\* acc(new: DataBlock[T], this: DataBlock[T] = None)
AccInputs      == << GSlot("new", "DataBlock", FALSE, FALSE, "src", "T"),
                     GSlot("this", "DataBlock", TRUE, TRUE, "n", "T") >>
DualInputs     == << Slot("a", "DataBlock", FALSE, FALSE, "src"),
                     Slot("b", "DataBlock", TRUE, FALSE, "src") >>
DataSetInputs  == << Slot("b", "DataSet", FALSE, FALSE, "agg") >>

\* a pipe without parameters
SourceInputs   == << >>
\* an optional DataBlock slot next to a DataSet slot
OptJoinInputs  == << Slot("a", "DataBlock", TRUE, FALSE, "src"),
                     Slot("b", "DataSet", FALSE, FALSE, "agg") >>
\* acc(this: DataBlock[T], new: DataBlock[T]): no parameter has a default
AccLiteralInputs == << GSlot("this", "DataBlock", FALSE, TRUE, "n", "T"),
                       GSlot("new", "DataBlock", FALSE, FALSE, "src", "T") >>
\* two and three parameters, two of them DataBlock without default
TwoRequiredInputs == << Slot("a", "DataBlock", FALSE, FALSE, "src"),
                        Slot("b", "DataBlock", FALSE, FALSE, "src") >>
SplitRequiredInputs == << Slot("a", "DataBlock", FALSE, FALSE, "src"),
                          Slot("b", "DataBlock", TRUE, FALSE, "src"),
                          Slot("c", "DataBlock", FALSE, FALSE, "src") >>

Interfaces == {XformInputs, NeverStopInputs, JoinInputs, AccInputs,
               DualInputs, DataSetInputs,
               AccLiteralInputs, TwoRequiredInputs, SplitRequiredInputs}

\* ------------------------------------------------- execution context
RuntimeClasses == {"python", "database"}
\* The runtimes an environment can declare
Runtimes == {[url |-> "python://local", runtime_class |-> "python"],
             [url |-> "python://other", runtime_class |-> "python"],
             [url |-> "postgres://db", runtime_class |-> "database"]}
NoRuntime == [url |-> "", runtime_class |-> ""]
Schemas == {"S1", "S2"}

\* The set-up of the runs of Spec: one local python runtime, pipes defined for
\* it, records of one schema, a clock too coarse to separate two readings.
DefaultSetup ==
    [runtimes |-> << [url |-> "python://local", runtime_class |-> "python"] >>,
     compatible_runtime_classes |-> {"python"},
     definitions |-> {"python"},
     schemas |-> {"S1"},
     max_elapsed |-> 0,
     target_storages |-> {"target"},
     storages |-> {"target"},
     output_class |-> "DataBlock",
     composite |-> {},
     outcomes |-> {"none", "payload", "raise", "convert_fail"}]

\* What one call of the pipe callable plus the storage layer can do: the pipe
\* returns None, a value of its declared output class ("payload"), a plain
\* records list, a generator of records lists, a generator that yields
\* nothing, or raises; "convert_fail" is a payload whose conversion to the
\* target storage raises.
Outcomes == {"none", "payload", "raise", "convert_fail",
             "records_list", "generator", "empty_generator"}

\* The data format classes conform_output wraps in a ReusableGenerator
GeneratorClasses == {"RecordsListGenerator", "DataFrameGenerator"}

\* ctx.target_storage of a call: a storage, or "" for None
TargetStorages == {"target", ""}

VARIABLES
    iface,            \* inputs of node "n"'s pipe interface
    blocks,           \* DataBlockMetadata rows of the metadata session
    pipe_logs,        \* PipeLog rows of the metadata session
    data_block_logs,  \* DataBlockLog rows of the metadata session
    pc,               \* position in ExecutionManager.run: idle, bind, run, done
    cur,              \* node of the running call
    to_exhaustion,    \* argument of the running call
    bound,            \* input_data_blocks of the current iteration: slot index -> block id
    last_output,      \* run's local last_output (block id, 0 = None)
    n_runs,           \* run's local n_runs
    raised,           \* "none", or the exception that left run
    start,            \* table sizes when the running call started
    last_produced,    \* last non-None output of a Worker.run of the running call
    quiet,            \* nodes run to exhaustion with no upstream block created since
    setup,            \* ctx.runtimes, the pipes' runtime classes and definitions,
                      \* the schemas records come in, the clock's largest step
    now,              \* the clock
    runtime,          \* run's local runtime (NoRuntime before select_runtime)
    dfl,              \* the DataFunctionLog object of the call's latest invocation
    target_storage,   \* ctx.target_storage of the running call ("" = None)
    returned,         \* what the pipe callable did in the call's latest invocation
    arg,              \* argument of the interface function under study
    result            \* what that function returned ("unset" before it ran)

vars == << iface, blocks, pipe_logs, data_block_logs, pc, cur, to_exhaustion,
           bound, last_output, n_runs, raised, start, last_produced, quiet,
           setup, now, runtime, dfl, target_storage, returned, arg, result >>

\* --------------------------------------------------------- interfaces
\* Node.get_interface().inputs
Inputs(node) ==
    CASE node = "src" -> << >>
      [] node = "agg" -> << Slot("input", "DataBlock", FALSE, FALSE, "src") >>
      [] OTHER        -> iface

\* validate_inputs that compares each DataBlock parameter with its predecessor only
RECURSIVE ValidateInputs_Adjacent(_, _, _)
ValidateInputs_Adjacent(inputs, i, data_block_seen) ==
    IF i > Len(inputs) THEN TRUE
    ELSE IF inputs[i].cls = "DataBlock" /\ ~inputs[i].is_optional
         THEN IF data_block_seen THEN FALSE
              ELSE ValidateInputs_Adjacent(inputs, i + 1, TRUE)
         ELSE ValidateInputs_Adjacent(inputs, i + 1, FALSE)

\* DataFunctionInterface.validate_inputs from parameter i on: FALSE when it raises
RECURSIVE ValidateInputs(_, _, _)
ValidateInputs(inputs, i, data_block_seen) ==
    IF i > Len(inputs) THEN TRUE
    ELSE IF inputs[i].cls = "DataBlock" /\ ~inputs[i].is_optional
         THEN IF data_block_seen THEN FALSE
              ELSE ValidateInputs(inputs, i + 1, TRUE)
         ELSE ValidateInputs(inputs, i + 1, data_block_seen)

\* ------------------------------------------------ annotation parsing
\* A type annotation is the sequence of its tokens: words, "[" and "]".
IsWord(tok) == tok \notin {"[", "]"}

\* VALID_DATA_INTERFACE_TYPES
ValidDataInterfaceTypes ==
    {"DataBlock", "DataSet", "DataFrame", "RecordsList", "RecordsListGenerator",
     "DataFrameGenerator", "DatabaseTableRef"}

\* re_type_hint.match(annotation): the groups optional, origin and arg ("" for
\* a group that did not take part), matched FALSE for None
TypeHintMatch(annotation) ==
    LET optional == /\ Len(annotation) >= 3
                    /\ annotation[1] = "Optional" /\ annotation[2] = "["
                    /\ IsWord(annotation[3])
        rest == IF optional THEN SubSeq(annotation, 3, Len(annotation))
                ELSE annotation
        has_arg == /\ Len(rest) >= 4
                   /\ rest[2] = "[" /\ IsWord(rest[3]) /\ rest[4] = "]"
    IN  IF Len(rest) = 0 \/ ~IsWord(rest[1])
        THEN [matched |-> FALSE, optional |-> FALSE, origin |-> "", arg |-> ""]
        ELSE [matched |-> TRUE, optional |-> optional, origin |-> rest[1],
              arg |-> IF has_arg THEN rest[3] ELSE ""]

\* dict.update: the entries of kwargs replace those of args
Update(args, kwargs) ==
    [k \in DOMAIN args \cup DOMAIN kwargs |->
        IF k \in DOMAIN kwargs THEN kwargs[k] ELSE args[k]]

\* DataFunctionAnnotation.create
Create(kwargs) ==
    IF kwargs.data_format_class \notin ValidDataInterfaceTypes
    THEN [status |-> "TypeError"]
    ELSE [status |-> "ok",
          annotation |->
              [name |-> IF "name" \in DOMAIN kwargs THEN kwargs.name ELSE "",
               cls |-> kwargs.data_format_class,
               is_optional |-> kwargs.is_optional,
               is_self_ref |-> "name" \in DOMAIN kwargs /\ kwargs.name = "this",
               otype_like |-> IF kwargs.otype_like = "" THEN "Any"
                              ELSE kwargs.otype_like]]

\* DataFunctionAnnotation.from_type_annotation
FromTypeAnnotation(annotation, kwargs) ==
    LET m == TypeHintMatch(annotation)
    IN  IF ~m.matched THEN [status |-> "Exception"]
        ELSE Create(Update([data_format_class |-> m.origin,
                            otype_like |-> m.arg,
                            is_optional |-> m.optional],
                           kwargs))

\* DataFunctionAnnotation.from_parameter
FromParameter(parameter) ==
    FromTypeAnnotation(parameter.annotation,
                       [name |-> parameter.name,
                        is_optional |-> parameter.has_default])

\* get_non_recursive_inputs
NonRecursiveInputs(inputs) == SelectSeq(inputs, LAMBDA i : ~i.is_self_ref)

\* assign_inputs that asks the self-referencing parameter to be connected too
AssignInputs_CountsThis(inputs, raw) ==
    IF raw.kind # "map"
    THEN IF Len(inputs) = 1
         THEN [status |-> "ok",
               declared_inputs |-> [k \in {inputs[1].name} |-> raw.node]]
         ELSE [status |-> "AssertionError", declared_inputs |-> << >>]
    ELSE IF DOMAIN raw.map = {inputs[i].name : i \in 1..Len(inputs)}
         THEN [status |-> "ok", declared_inputs |-> raw.map]
         ELSE [status |-> "AssertionError", declared_inputs |-> << >>]

\* DataFunctionInterface.assign_inputs: raw is one node, or a map from
\* parameter names to nodes
AssignInputs(inputs, raw) ==
    IF raw.kind # "map"
    THEN IF Len(NonRecursiveInputs(inputs)) = 1
         THEN [status |-> "ok",
               declared_inputs |->
                   [k \in {NonRecursiveInputs(inputs)[1].name} |-> raw.node]]
         ELSE [status |-> "AssertionError", declared_inputs |-> << >>]
    ELSE IF (DOMAIN raw.map) \ {"this"} =
              {NonRecursiveInputs(inputs)[i].name :
                   i \in 1..Len(NonRecursiveInputs(inputs))}
         THEN [status |-> "ok", declared_inputs |-> raw.map]
         ELSE [status |-> "AssertionError", declared_inputs |-> << >>]

\* create_node: pipe.get_interface builds the interface, which raises out of
\* create_node when validate_inputs does; no node "n" exists then.
NodeCreated == ValidateInputs(iface, 1, FALSE)

\* The nodes of the graph: the DataSet producer "agg" is declared only in
\* graphs where a slot of "n" is connected to it.
GraphNodes ==
    IF NodeCreated
    THEN {"src", "n"} \cup {iface[i].input_node : i \in 1..Len(iface)}
    ELSE {"src"}

\* data_format_class of the declared output
OutputClass(node) == IF node = "agg" THEN "DataSet" ELSE setup.output_class

\* ------------------------------------------------------------ streams
SetMin(S) == IF S = {} THEN 0 ELSE CHOOSE x \in S : \A y \in S : x <= y
SetMax(S) == IF S = {} THEN 0 ELSE CHOOSE x \in S : \A y \in S : x >= y

\* Is block b logged with direction dir by a PipeLog of node, in the given tables?
Logged(pls, dbls, node, b, dir) ==
    \E i \in 1..Len(dbls) :
        /\ dbls[i].data_block = b
        /\ dbls[i].direction = dir
        /\ pls[dbls[i].pipe_log].node_key = node

\* DataBlockStream(upstream=node): the blocks some PipeLog of node logged as OUTPUT
UpstreamBlocks(node) ==
    {b \in 1..Len(blocks) : Logged(pipe_logs, data_block_logs, node, b, "OUTPUT")}

\* stream.filter_unprocessed(node, allow_cycle)
FilterUnprocessed(S, node, allow_cycle) ==
    {b \in S : /\ ~Logged(pipe_logs, data_block_logs, node, b, "INPUT")
               /\ allow_cycle \/ ~Logged(pipe_logs, data_block_logs, node, b, "OUTPUT")}

\* ctx.all_storages: the local memory storage, then ctx.storages
AllStorages == {"memory"} \cup setup.storages

\* stream.filter_storages(storages): blocks stored on one of them at least
FilterStorages(S, storages) == {b \in S : blocks[b].storages \cap storages # {}}

\* The stream get_input_data_block starts from: upstream's blocks, filtered
\* by ctx.all_storages when that list is not empty
InputStream(slot) ==
    IF AllStorages # {}
    THEN FilterStorages(UpstreamBlocks(slot.input_node), AllStorages)
    ELSE UpstreamBlocks(slot.input_node)

\* stream.filter_dataset()
FilterDataset(S) == {b \in S : blocks[b].dataset}

\* stream.is_unprocessed(ctx, block, node)
IsUnprocessed(b, node) == ~Logged(pipe_logs, data_block_logs, node, b, "INPUT")

\* --------------------------------------------- NodeInterfaceManager
\* get_input_data_block without the filter_unprocessed step
GetInputDataBlock_NoFilter(node, slot) ==
    IF slot.cls = "DataBlock"
    THEN SetMin(InputStream(slot))
    ELSE SetMax(FilterDataset(InputStream(slot)))

\* get_input_data_block that never passes allow_cycle
GetInputDataBlock_NoCycle(node, slot) ==
    IF slot.cls = "DataBlock"
    THEN SetMin(FilterUnprocessed(InputStream(slot), node, FALSE))
    ELSE SetMax(FilterDataset(InputStream(slot)))

\* get_input_data_block that takes get_most_recent for DataBlock slots too
GetInputDataBlock_MostRecent(node, slot) ==
    IF slot.cls = "DataBlock"
    THEN SetMax(FilterUnprocessed(InputStream(slot), node, slot.is_self_ref))
    ELSE SetMax(FilterDataset(InputStream(slot)))

\* get_input_data_block: one block for one slot, 0 when the stream is empty
GetInputDataBlock(node, slot) ==
    IF slot.cls = "DataBlock"
    THEN SetMin(FilterUnprocessed(InputStream(slot), node, slot.is_self_ref))
    ELSE SetMax(FilterDataset(InputStream(slot)))

\* an empty required slot that is let through
RequiredEmpty_Never(slot, block) == FALSE

\* block is None and not input.original_annotation.is_optional
RequiredEmpty(slot, block) == block = 0 /\ ~slot.is_optional

\* The loop of get_input_data_blocks from slot i on; acc carries
\* input_data_blocks (0 = no entry) and any_unprocessed.
RECURSIVE BindFrom(_, _, _)
BindFrom(node, i, acc) ==
    IF i > Len(Inputs(node))
    THEN IF (\E j \in DOMAIN acc.blocks : acc.blocks[j] # 0) /\ ~acc.any_unprocessed
         THEN [status |-> "all_exhausted", blocks |-> acc.blocks]
         ELSE [status |-> "ok", blocks |-> acc.blocks]
    ELSE LET slot  == Inputs(node)[i]
             block == GetInputDataBlock(node, slot)
         IN  IF RequiredEmpty(slot, block)
             THEN [status |-> "required_empty", blocks |-> acc.blocks]
             ELSE BindFrom(node, i + 1,
                    [blocks |-> [acc.blocks EXCEPT ![i] = block],
                     any_unprocessed |->
                        IF slot.cls = "DataBlock" THEN TRUE
                        ELSE IF block # 0
                             THEN acc.any_unprocessed \/ IsUnprocessed(block, node)
                             ELSE acc.any_unprocessed])

GetInputDataBlocks(node) ==
    BindFrom(node, 1, [blocks |-> [j \in 1..Len(Inputs(node)) |-> 0],
                       any_unprocessed |-> FALSE])

\* node.get_raw_inputs(): the inputs the node was declared with, a map from
\* the names of its parameters that are not self-references to nodes
GetRawInputs(node) ==
    LET declared == NonRecursiveInputs(Inputs(node))
    IN  [kind |-> "map",
         map |-> [nm \in {declared[k].name : k \in 1..Len(declared)} |->
                     LET k == CHOOSE j \in 1..Len(declared) : declared[j].name = nm
                     IN  declared[k].input_node]]

\* BoundFunctionInterface.from_dfi: one NodeInput per parameter, not connected
\* ("" for None) and not bound (0 for None)
FromDfi(inputs) ==
    [k \in 1..Len(inputs) |->
        [name |-> inputs[k].name, original_annotation |-> inputs[k],
         input_node |-> "", bound_data_block |-> 0]]

\* BoundFunctionInterface.connect
Connect(i, input_nodes) ==
    [k \in DOMAIN i |->
        IF i[k].name \in DOMAIN input_nodes
        THEN [i[k] EXCEPT !.input_node = input_nodes[i[k].name]]
        ELSE i[k]]

\* BoundFunctionInterface.bind, the blocks given by slot position
BindBlocks(i, input_blocks) ==
    [k \in DOMAIN i |-> [i[k] EXCEPT !.bound_data_block = input_blocks[k]]]

\* NodeInterfaceManager.get_bound_interface for the blocks found by
\* get_input_data_blocks
GetBoundInterface(node, input_data_blocks) ==
    BindBlocks(Connect(FromDfi(Inputs(node)),
                       AssignInputs(Inputs(node), GetRawInputs(node)).declared_inputs),
               input_data_blocks)

\* ---------------------------------------------------- composite nodes
\* Node keys are sequences of key parts: << "n", "p" >> stands for "n__p".
\* A pipe is its key and its sub-graph, empty for a leaf pipe.
Pipe(key, sub_graph) == [key |-> key, sub_graph |-> sub_graph]

\* Pipe.is_composite
PipeIsComposite(pipe) == pipe.sub_graph # << >>

\* make_pipe_key: the key of a pipe
MakePipeKey(fn) == fn.key

\* The values of a declared-inputs map, in the order of list(d.values())
DeclaredValues(declared) ==
    LET names == DOMAIN declared
    IN  IF names = {} THEN << >>
        ELSE << declared[CHOOSE nm \in names : TRUE] >>

\* created_nodes / the graph's declared nodes: the node of a given key
NodeOfKey(nodes, key) == CHOOSE nd \in nodes : nd.key = key
KeysOf(nodes) == {nd.key : nd \in nodes}

RECURSIVE BuildLoop(_, _, _, _, _, _, _)
\* create_node(graph, key, pipe, inputs=input_node): one node as input, the
\* sub-nodes built when the pipe is composite
MakeNode(graph, key, pipe, input_node) ==
    LET declared == AssignInputs(XformInputs,
                                 [kind |-> "single", node |-> input_node])
                        .declared_inputs
    IN  [key |-> key, pipe |-> pipe, declared_inputs |-> declared,
         sub_nodes |->
             IF PipeIsComposite(pipe)
             THEN BuildLoop(graph, key, pipe.sub_graph, 1,
                            DeclaredValues(declared)[1], {}, << >>)
             ELSE << >>]

\* The for loop of build_composite_nodes from the k-th pipe of the sub-graph
\* on: a child key already created in this call, or declared in the graph, gives
\* the existing node; any other key gives a new node whose input is input_node.
BuildLoop(graph, key, sub_graph, k, input_node, created_nodes, nodes) ==
    IF k > Len(sub_graph) THEN nodes
    ELSE LET fn == sub_graph[k]
             child_node_key == Append(key, MakePipeKey(fn))
             node == IF child_node_key \in KeysOf(created_nodes)
                     THEN NodeOfKey(created_nodes, child_node_key)
                     ELSE IF child_node_key \in KeysOf(graph)
                     THEN NodeOfKey(graph, child_node_key)
                     ELSE MakeNode(graph, child_node_key, fn, input_node)
             created == IF child_node_key \in KeysOf(created_nodes) \cup KeysOf(graph)
                        THEN created_nodes
                        ELSE created_nodes \cup {node}
         IN  BuildLoop(graph, key, sub_graph, k + 1, node.key, created,
                       Append(nodes, node))

RECURSIVE GetOutputNode(_)
\* Node.get_output_node
GetOutputNode(node) ==
    IF PipeIsComposite(node.pipe)
    THEN GetOutputNode(node.sub_nodes[Len(node.sub_nodes)])
    ELSE node

RECURSIVE GetInputNode(_)
\* Node.get_input_node
GetInputNode(node) ==
    IF PipeIsComposite(node.pipe)
    THEN GetInputNode(node.sub_nodes[1])
    ELSE node

\* The index of the latest row that a PipeLog of node logged, whatever its
\* direction
LatestOutputRow_AnyDirection(pls, dbls, node) ==
    SetMax({i \in 1..Len(dbls) : pls[dbls[i].pipe_log].node_key = node})

\* The query of Node.get_latest_output: OUTPUT rows of the node's PipeLogs,
\* latest created first; rows are created in table order.
LatestOutputRow(pls, dbls, node) ==
    SetMax({i \in 1..Len(dbls) :
               /\ dbls[i].direction = "OUTPUT"
               /\ pls[dbls[i].pipe_log].node_key = node})

\* Node.get_latest_output: the block of that row, 0 (None) without a row
GetLatestOutput(pls, dbls, node) ==
    IF LatestOutputRow(pls, dbls, node) = 0 THEN 0
    ELSE dbls[LatestOutputRow(pls, dbls, node)].data_block

\* ------------------------------------------------- ExecutionManager
\* select_runtime that keeps looking and returns the last compatible runtime
RECURSIVE SelectRuntime_Last(_, _, _)
SelectRuntime_Last(rts, compatible, i) ==
    IF i > Len(rts) THEN NoRuntime
    ELSE LET later == SelectRuntime_Last(rts, compatible, i + 1)
         IN  IF later # NoRuntime THEN later
             ELSE IF rts[i].runtime_class \in compatible THEN rts[i]
             ELSE NoRuntime

\* select_runtime from position i of ctx.runtimes on; NoRuntime when it raises
RECURSIVE SelectRuntime(_, _, _)
SelectRuntime(rts, compatible, i) ==
    IF i > Len(rts) THEN NoRuntime
    ELSE IF rts[i].runtime_class \in compatible THEN rts[i]
    ELSE SelectRuntime(rts, compatible, i + 1)

\* -------------------------------------------------------------- Worker
NoLog == [node_key |-> "", error |-> FALSE, completed |-> FALSE,
          started_at |-> 0, completed_at |-> 0, runtime_url |-> ""]

\* start_data_function_run: the DataFunctionLog object and the session it will
\* be logged through.  dfl_id = 0 while the object is not in the session; at
\* is what utcnow() reads while rows are logged.
StartDataFunctionRun(node, pls, dbls) ==
    [dfl |-> [node_key |-> node, error |-> FALSE, completed |-> FALSE,
              started_at |-> now, completed_at |-> 0,
              runtime_url |-> runtime.url],
     dfl_id |-> 0, pipe_logs |-> pls, data_block_logs |-> dbls, at |-> now]

\* RunSession.log that leaves processed_at at the start of time
Log_Unstamped(sess, b, dir, slotname) ==
    LET id == IF sess.dfl_id = 0 THEN Len(sess.pipe_logs) + 1 ELSE sess.dfl_id
    IN  [sess EXCEPT
            !.pipe_logs = IF sess.dfl_id = 0 THEN Append(@, sess.dfl) ELSE @,
            !.data_block_logs = Append(@, [pipe_log |-> id, data_block |-> b,
                                           direction |-> dir, slot |-> slotname,
                                           processed_at |-> 0]),
            !.dfl_id = id]

\* RunSession.log: add a DataBlockLog row to the session; the log object the
\* row refers to enters the session with the first row that refers to it.
Log(sess, b, dir, slotname) ==
    LET id == IF sess.dfl_id = 0 THEN Len(sess.pipe_logs) + 1 ELSE sess.dfl_id
    IN  [sess EXCEPT
            !.pipe_logs = IF sess.dfl_id = 0 THEN Append(@, sess.dfl) ELSE @,
            !.data_block_logs = Append(@, [pipe_log |-> id, data_block |-> b,
                                           direction |-> dir, slot |-> slotname,
                                           processed_at |-> sess.at]),
            !.dfl_id = id]

\* log_input that passes the wrong direction
LogInput_AsOutput(sess, b, slotname) == Log(sess, b, "OUTPUT", slotname)

\* RunSession.log_input
LogInput(sess, b, slotname) == Log(sess, b, "INPUT", slotname)

\* RunSession.log_output
LogOutput(sess, b) == Log(sess, b, "OUTPUT", "")

\* The loop over data_function_interface.inputs at the end of Worker.run
RECURSIVE LogInputs(_, _, _, _)
LogInputs(sess, slots, bnd, i) ==
    IF i > Len(slots) THEN sess
    ELSE LogInputs(IF bnd[i] # 0 THEN LogInput(sess, bnd[i], slots[i].name)
                   ELSE sess,
                   slots, bnd, i + 1)

\* except: dfl.set_error(e)
SetError(sess) == [sess EXCEPT !.dfl.error = TRUE]

\* completed_at set at the end of the with-body instead of in finally
Completed_OnSuccess(d, t) ==
    IF d.error THEN d ELSE [d EXCEPT !.completed = TRUE, !.completed_at = t]

\* finally: dfl.completed_at = utcnow()
Completed(d, t) == [d EXCEPT !.completed = TRUE, !.completed_at = t]

\* The PipeLog table shows the object's final fields if the object is in the
\* session.
Finish(sess, t) ==
    IF sess.dfl_id = 0 THEN sess.pipe_logs
    ELSE [sess.pipe_logs EXCEPT ![sess.dfl_id] = Completed(sess.dfl, t)]

\* create_data_block_from_records: a fresh block in the session, its realized
\* schema that of the records
CreateDataBlock(bs, node, schema, value) ==
    Append(bs, [dataset |-> (OutputClass(node) = "DataSet" /\ value = "payload"),
                schema |-> schema,
                storages |-> {"memory", target_storage}])

\* What the pipe callable hands to conform_output
Returned(outcome) == IF outcome = "convert_fail" THEN "payload" ELSE outcome

\* conform_output without the get_one test: an empty generator becomes a block
ConformOutput_NoEmptyTest(cls, value) ==
    IF value \in {"generator", "empty_generator"}
    THEN IF cls \notin GeneratorClasses THEN "AttributeError" ELSE "block"
    ELSE "block"

\* conform_output on a value that is not None, up to create_data_block: a
\* generator under a declared class that is not a generator class is not
\* wrapped (the TypeError is built, not raised) and has no get_one; a wrapped
\* generator without a first element gives None; anything else becomes a block.
ConformOutput(cls, value) ==
    IF value \in {"generator", "empty_generator"}
    THEN IF cls \notin GeneratorClasses THEN "AttributeError"
         ELSE IF value = "empty_generator" THEN "none"
         ELSE "block"
    ELSE "block"

\* a with-body without the assertion on ctx.target_storage
RunError_NoStorageCheck(outcome, cls, ts) ==
    CASE Returned(outcome) = "raise" -> "PipeFailure"
      [] Returned(outcome) = "none"  -> "none"
      [] ConformOutput(cls, Returned(outcome)) = "AttributeError" -> "AttributeError"
      [] outcome = "convert_fail"    -> "ConversionFailure"
      [] OTHER                       -> "none"

\* The exception that leaves the with-body of Worker.run, "none" if none does
RunError(outcome, cls, ts) ==
    CASE Returned(outcome) = "raise" -> "PipeFailure"
      [] Returned(outcome) = "none"  -> "none"
      [] ts = ""                     -> "MissingTargetStorage"
      [] ConformOutput(cls, Returned(outcome)) = "AttributeError" -> "AttributeError"
      [] outcome = "convert_fail"    -> "ConversionFailure"
      [] OTHER                       -> "none"

\* rows logged for the bound inputs before the pipe is called
LoggedBeforeFailure_Inputs(sess, slots, bnd) == LogInputs(sess, slots, bnd, 1)

\* The rows of the invocation's session when the with-body raises: log_output
\* and the log_input loop come after execute_data_function and conform_output.
LoggedBeforeFailure(sess, slots, bnd) == sess

\* a session that keeps what the failed invocation added
Rollback_Keeps(before, after) == after

\* One invocation is one transaction: the rows a failed invocation added to
\* the session are discarded.
Rollback(before, after) == before

\* an exit test that leaves after the first iteration
LoopBreaks_Always(exh, node) == TRUE

\* an exit test without the "not dfi.inputs" disjunct
LoopBreaks_IgnoresInputs(exh, node) == ~exh

\* The exit test of the run loop: not to_exhaustion or not dfi.inputs
LoopBreaks(exh, node) == ~exh \/ Len(Inputs(node)) = 0

\* a handler inside the loop, which goes on with the next iteration
AfterException_Continues(e) == "bind"

\* The try statement of run encloses the while loop: an exception raised in
\* an iteration, InputExhaustedException included, ends the loop.
AfterException(e) == "done"

\* ------------------------------------------------------------- state
\* No interface function is under study; none has returned.
NoCall == [fn |-> "none"]
NoResult == [status |-> "unset"]

\* The state before the first call, for a pipe interface, a set-up and an
\* interface function call out of the given sets.
StartCall(interfaces, setups, calls) ==
    /\ iface \in interfaces
    /\ setup \in setups
    /\ blocks = << >>
    /\ pipe_logs = << >>
    /\ data_block_logs = << >>
    /\ pc = "idle"
    /\ cur = "src"
    /\ to_exhaustion = FALSE
    /\ bound = << >>
    /\ last_output = 0
    /\ n_runs = 0
    /\ raised = "none"
    /\ start = [blocks |-> 0, pipe_logs |-> 0, data_block_logs |-> 0]
    /\ last_produced = 0
    /\ quiet = {}
    /\ now = 0
    /\ runtime = NoRuntime
    /\ dfl = NoLog
    /\ target_storage = ""
    /\ returned = "unset"
    /\ arg \in calls
    /\ result = NoResult

\* ... with no interface function under study
Start(interfaces, setups) == StartCall(interfaces, setups, {NoCall})

Init == Start(Interfaces, {DefaultSetup})

\* a node that is never taken for composite
IsComposite_Never(node) == FALSE

\* Node.is_composite: is the node's pipe defined by a sub-graph?
IsComposite(node) == node \in setup.composite

\* ExecutionManager.run up to the loop
Execute(node, exh) ==
    /\ pc = "idle"
    /\ node \in GraphNodes
    /\ LET rt == IF IsComposite(node) THEN NoRuntime
                 ELSE SelectRuntime(setup.runtimes,
                                    setup.compatible_runtime_classes, 1)
       IN  /\ runtime' = rt
           /\ pc' = IF rt = NoRuntime THEN "done" ELSE "bind"
           /\ raised' = IF IsComposite(node) THEN "NotImplementedError"
                        ELSE IF rt = NoRuntime THEN "NoCompatibleRuntime"
                        ELSE "none"
    /\ cur' = node
    /\ to_exhaustion' = exh
    /\ bound' = << >>
    /\ last_output' = 0
    /\ n_runs' = 0
    /\ last_produced' = 0
    /\ dfl' = NoLog
    /\ target_storage' \in setup.target_storages
    /\ returned' = "unset"
    /\ start' = [blocks |-> Len(blocks), pipe_logs |-> Len(pipe_logs),
                 data_block_logs |-> Len(data_block_logs)]
    /\ UNCHANGED << iface, blocks, pipe_logs, data_block_logs, quiet, setup, now,
                    arg, result >>

\* get_bound_data_function_interface, where InputExhaustedException leaves the
\* loop, then get_definition for the selected runtime
Bind ==
    /\ pc = "bind"
    /\ LET r == GetInputDataBlocks(cur)
       IN  IF r.status # "ok"
           THEN /\ bound' = << >>
                /\ pc' = AfterException("InputExhausted")
                /\ raised' = raised
           ELSE IF runtime.runtime_class \notin setup.definitions
           THEN /\ bound' = << >>
                /\ pc' = AfterException("NoSuchDefinition")
                /\ raised' = "NoSuchDefinition"
           ELSE /\ bound' = r.blocks
                /\ pc' = "run"
                /\ raised' = raised
    /\ UNCHANGED << iface, blocks, pipe_logs, data_block_logs, cur, to_exhaustion,
                    last_output, n_runs, start, last_produced, quiet,
                    setup, now, runtime, dfl, target_storage, returned,
                    arg, result >>

\* Worker.run inside start_data_function_run, then the rest of the loop body.
\* elapsed is the time the pipe callable takes (the rows are written when it
\* has returned), schema that of the records returned.
Invoke(outcome, elapsed, schema) ==
    /\ pc = "run"
    /\ outcome \in setup.outcomes
    /\ LET value  == Returned(outcome)
           error  == RunError(outcome, OutputClass(cur), target_storage)
           creates == /\ error \in {"none", "ConversionFailure"}
                      /\ value # "none"
                      /\ ConformOutput(OutputClass(cur), value) = "block"
           t1     == IF now + elapsed > MaxClock THEN MaxClock ELSE now + elapsed
           sess0  == [StartDataFunctionRun(cur, pipe_logs, data_block_logs)
                         EXCEPT !.at = t1]
           made   == CreateDataBlock(blocks, cur, schema, value)
           output_block == IF creates /\ error = "none" THEN Len(made) ELSE 0
           sess1  == IF output_block # 0
                     THEN LogOutput(sess0, output_block)
                     ELSE sess0
           sess2  == LogInputs(sess1, Inputs(cur), bound, 1)
           failed == SetError(LoggedBeforeFailure(sess0, Inputs(cur), bound))
       IN  /\ creates => Len(blocks) < MaxBlocks
           /\ error = "none" => Len(sess2.data_block_logs) <= MaxRows
           /\ now' = t1
           /\ returned' = value
           /\ IF error # "none"
              THEN /\ blocks' = IF creates THEN Rollback(blocks, made) ELSE blocks
                   /\ pipe_logs' = Finish(failed, t1)
                   /\ data_block_logs' = failed.data_block_logs
                   /\ dfl' = Completed(failed.dfl, t1)
                   /\ raised' = error
                   /\ pc' = AfterException(error)
                   /\ UNCHANGED << last_output, n_runs, last_produced >>
              ELSE /\ blocks' = IF creates THEN made ELSE blocks
                   /\ pipe_logs' = Finish(sess2, t1)
                   /\ data_block_logs' = sess2.data_block_logs
                   /\ dfl' = Completed(sess2.dfl, t1)
                   /\ last_output' = output_block
                   /\ last_produced' = IF output_block # 0 THEN output_block
                                       ELSE last_produced
                   /\ n_runs' = IF n_runs < MaxRuns THEN n_runs + 1 ELSE n_runs
                   /\ raised' = raised
                   /\ pc' = IF LoopBreaks(to_exhaustion, cur) THEN "done" ELSE "bind"
    /\ UNCHANGED << iface, cur, to_exhaustion, bound, start, quiet, setup, runtime,
                    target_storage, arg, result >>

WorkerRun(outcome) ==
    \E elapsed \in 0..setup.max_elapsed, schema \in setup.schemas :
        Invoke(outcome, elapsed, schema)

\* Does the running call own an OUTPUT row written since it started?
ProducedInCall ==
    \E i \in (start.data_block_logs + 1)..Len(data_block_logs) :
        data_block_logs[i].direction = "OUTPUT"

\* run returns (or re-raises) to its caller
Return ==
    /\ pc = "done"
    /\ pc' = "idle"
    /\ quiet' = LET woken == IF ProducedInCall
                             THEN {d \in GraphNodes : \E i \in 1..Len(Inputs(d)) :
                                        Inputs(d)[i].input_node = cur}
                             ELSE {}
                IN  (quiet \ woken) \cup
                    (IF to_exhaustion /\ raised = "none" THEN {cur} ELSE {})
    \* the call's locals die with the call
    /\ cur' = "src"
    /\ to_exhaustion' = FALSE
    /\ bound' = << >>
    /\ last_output' = 0
    /\ n_runs' = 0
    /\ raised' = "none"
    /\ start' = [blocks |-> 0, pipe_logs |-> 0, data_block_logs |-> 0]
    /\ last_produced' = 0
    /\ runtime' = NoRuntime
    /\ dfl' = NoLog
    /\ target_storage' = ""
    /\ returned' = "unset"
    /\ UNCHANGED << iface, blocks, pipe_logs, data_block_logs, setup, now,
                    arg, result >>

Next ==
    \/ \E node \in Nodes, exh \in BOOLEAN : Execute(node, exh)
    \/ Bind
    \/ \E outcome \in Outcomes : WorkerRun(outcome)
    \/ Return

Spec == Init /\ [][Next]_vars

\* The steps of one call follow each other without waiting for anything.
FairSpec ==
    /\ Spec
    /\ WF_vars(Bind)
    /\ WF_vars(\E outcome \in Outcomes : WorkerRun(outcome))
    /\ WF_vars(Return)

\* A node with an optional DataBlock slot next to a DataSet slot.
BindInit == Start({OptJoinInputs}, {DefaultSetup})
BindSpec == BindInit /\ [][Next]_vars

\* The accumulator over records of two schemas.
GenericInit == Start({AccInputs}, {[DefaultSetup EXCEPT !.schemas = Schemas]})
GenericSpec == GenericInit /\ [][Next]_vars

\* One consumer, with a clock that can advance during an invocation.
TimedInit == Start({XformInputs}, {[DefaultSetup EXCEPT !.max_elapsed = 1]})
TimedSpec == TimedInit /\ [][Next]_vars

\* Sequences over S of length at most n
RECURSIVE SeqsUpTo(_, _)
SeqsUpTo(S, n) ==
    IF n = 0 THEN {<< >>}
    ELSE LET shorter == SeqsUpTo(S, n - 1)
         IN  shorter \cup {Append(q, x) : q \in shorter, x \in S}

\* Two source pipes under every runtime list, compatibility set and set of
\* runtime classes the pipes are defined for.
RuntimeSetups ==
    {[DefaultSetup EXCEPT !.runtimes = rts,
                          !.compatible_runtime_classes = compatible,
                          !.definitions = defs] :
        rts \in SeqsUpTo(Runtimes, MaxRuntimes),
        compatible \in SUBSET RuntimeClasses,
        defs \in SUBSET RuntimeClasses}
RuntimeInit == Start({SourceInputs}, RuntimeSetups)
RuntimeSpec == RuntimeInit /\ [][Next]_vars

\* A consumer with one slot or two whose pipe can return any kind of value,
\* under each declared output class, with calls made with and without a
\* target storage.
ConformSetups ==
    {[DefaultSetup EXCEPT !.target_storages = TargetStorages,
                          !.outcomes = Outcomes,
                          !.output_class = cls] :
        cls \in {"DataBlock", "DataSet", "RecordsListGenerator"}}
ConformInit == Start({XformInputs, DualInputs}, ConformSetups)
ConformSpec == ConformInit /\ [][Next]_vars

\* ------------------------------------------------- node declaration
\* The names a caller of create_node may key its inputs with
InputNames == {"input", "a", "b", "new", "this"}

\* The inputs argument of create_node: one node, or a map from names to nodes
RawNodeInputs ==
    {[kind |-> "single", node |-> v] : v \in {"src", "agg"}} \cup
    {[kind |-> "map", map |-> m] :
        m \in UNION {[K -> {"src", "agg"}] : K \in SUBSET InputNames}}

\* Interfaces that validate_inputs lets through
ValidInterfaces == {i \in Interfaces \cup {SourceInputs, OptJoinInputs} :
                       ValidateInputs(i, 1, FALSE)}

\* create_node from the call of assign_inputs on (inputs is not None)
CreateNode ==
    /\ arg.fn = "assign_inputs"
    /\ result = NoResult
    /\ result' = AssignInputs(iface, arg.inputs)
    /\ UNCHANGED << iface, blocks, pipe_logs, data_block_logs, pc, cur,
                    to_exhaustion, bound, last_output, n_runs, raised, start,
                    last_produced, quiet, setup, now, runtime, dfl,
                    target_storage, returned, arg >>

\* Every valid interface with every inputs argument
AssignInit ==
    StartCall(ValidInterfaces, {DefaultSetup},
              {[fn |-> "assign_inputs", inputs |-> raw] : raw \in RawNodeInputs})
AssignSpec == AssignInit /\ [][CreateNode]_vars

\* ------------------------------------------------- pipe signatures
\* Annotations a pipe's parameter can carry: an origin, with or without a
\* schema argument, with or without Optional[...] around it
Origins == {"DataBlock", "DataSet", "RecordsList", "DataFunctionContext"}
Bare == {<< o >> : o \in Origins} \cup
        {<< o, "[", a, "]" >> : o \in Origins, a \in {"T", "TestType"}}
Annotations == Bare \cup {<< "Optional", "[" >> \o b \o << "]" >> : b \in Bare}

\* inspect.Parameter: a name, an annotation, a default or none
Parameters ==
    {[name |-> n, annotation |-> a, has_default |-> d] :
        n \in {"input", "this"}, a \in Annotations, d \in BOOLEAN}

\* from_data_function_definition on one parameter of the signature
ParseParameter ==
    /\ arg.fn = "from_parameter"
    /\ result = NoResult
    /\ result' = FromParameter(arg.parameter)
    /\ UNCHANGED << iface, blocks, pipe_logs, data_block_logs, pc, cur,
                    to_exhaustion, bound, last_output, n_runs, raised, start,
                    last_produced, quiet, setup, now, runtime, dfl,
                    target_storage, returned, arg >>

\* Every parameter, in a graph whose node "n" is not declared yet
ParseInit ==
    StartCall({SourceInputs}, {DefaultSetup},
              {[fn |-> "from_parameter", parameter |-> p] : p \in Parameters})
ParseSpec == ParseInit /\ [][ParseParameter]_vars

\* Joins whose required slot comes first or last, next to a consumer of a
\* DataSet only.
SlotOrderInit == Start({JoinInputs, OptJoinInputs, DataSetInputs}, {DefaultSetup})
SlotOrderSpec == SlotOrderInit /\ [][Next]_vars

\* The accumulator, whose second parameter is the self-reference.
SelfRefInit == Start({AccInputs}, {DefaultSetup})
SelfRefSpec == SelfRefInit /\ [][Next]_vars

\* A graph whose node "n" has a composite pipe, with and without a runtime
\* in the context.
CompositeSetups ==
    {[DefaultSetup EXCEPT !.composite = {"n"}, !.runtimes = rts] :
        rts \in {DefaultSetup.runtimes, << >>}}
CompositeInit == Start({XformInputs}, CompositeSetups)
CompositeSpec == CompositeInit /\ [][Next]_vars

\* ------------------------------------------------ composite pipes
\* Longest sub-graph of the composite pipe under test
MaxSubGraph == 3

\* Two leaf pipes and a composite pipe made of them
LeafP == Pipe("p", << >>)
LeafQ == Pipe("q", << >>)
NestedC == Pipe("c", << LeafP, LeafQ >>)
SubGraphPipes == {LeafP, LeafQ, NestedC}

\* The graph's declared nodes before the call: none, or a node "n__p"
\* declared by hand on another input
DeclaredGraphs ==
    {{}, {[key |-> << "n", "p" >>, pipe |-> LeafP,
           declared_inputs |-> [nm \in {"input"} |-> << "agg" >>],
           sub_nodes |-> << >>]}}

\* create_node(graph, "n", pipe, inputs=input) for a composite pipe
CreateCompositeNode ==
    /\ arg.fn = "create_node"
    /\ result = NoResult
    /\ result' = [status |-> "ok",
                  node |-> MakeNode(arg.graph, << "n" >>, arg.pipe, arg.input)]
    /\ UNCHANGED << iface, blocks, pipe_logs, data_block_logs, pc, cur,
                    to_exhaustion, bound, last_output, n_runs, raised, start,
                    last_produced, quiet, setup, now, runtime, dfl,
                    target_storage, returned, arg >>

\* Every non-empty sub-graph up to MaxSubGraph pipes, on either input, in either graph
BuildInit ==
    StartCall({XformInputs}, {DefaultSetup},
              {[fn |-> "create_node", graph |-> g, input |-> << i >>,
                pipe |-> Pipe("top", sg)] :
                   g \in DeclaredGraphs, i \in {"src", "agg"},
                   sg \in SeqsUpTo(SubGraphPipes, MaxSubGraph) \ {<< >>}})
BuildSpec == BuildInit /\ [][CreateCompositeNode]_vars

\* A consumer that runs with or without a waiting block, so that its own
\* outputs and its inputs interleave in the DataBlockLog table.
LatestOutputInit == Start({XformInputs, NeverStopInputs}, {DefaultSetup})
LatestOutputSpec == LatestOutputInit /\ [][Next]_vars

\* ============================================================== claims
\* DataBlockLog rows and PipeLog rows written since the running call started
NewRows == (start.data_block_logs + 1)..Len(data_block_logs)
NewPipeLogs == (start.pipe_logs + 1)..Len(pipe_logs)
NewBlocks == (start.blocks + 1)..Len(blocks)

\* node_key of the PipeLog that DataBlockLog row i belongs to
NodeOf(i) == pipe_logs[data_block_logs[i].pipe_log].node_key

\* The slot of node with that name, as a set (empty if there is none)
SlotsNamed(node, name) ==
    {Inputs(node)[k] : k \in {k \in 1..Len(Inputs(node)) : Inputs(node)[k].name = name}}

\* INPUT rows of node for block b that were not bound through a self_ref slot
InputRows(node, b) ==
    {i \in 1..Len(data_block_logs) :
        /\ data_block_logs[i].direction = "INPUT"
        /\ data_block_logs[i].data_block = b
        /\ NodeOf(i) = node
        /\ \A sl \in SlotsNamed(node, data_block_logs[i].slot) : ~sl.is_self_ref}

\* INPUT rows of node for block b bound through the slot called name
InputRowsOfSlot(node, b, name) ==
    {i \in InputRows(node, b) : data_block_logs[i].slot = name}

\* node has exactly one input slot: a required DataBlock slot that is not self_ref
SingleRequiredDataBlock(node) ==
    /\ Len(Inputs(node)) = 1
    /\ Inputs(node)[1].cls = "DataBlock"
    /\ ~Inputs(node)[1].is_optional
    /\ ~Inputs(node)[1].is_self_ref

\* C1: execute(node, to_exhaustion=true) terminates: a call that has entered
\* its run loop reaches the end of run (no upstream block is created during a
\* call, calls being serialized).
C1_ExecuteTerminates == (pc = "bind" /\ to_exhaustion) ~> (pc = "done")

\* C2: when the pipe callable raises, the call ends with exactly one PipeLog row
\* of that invocation in the session, with error set and completed_at set, and
\* no DataBlockLog row refers to it.
C2_FailedRunLeavesErrorPipeLog ==
    (pc = "done" /\ raised = "PipeFailure") =>
        /\ Cardinality({p \in NewPipeLogs : pipe_logs[p].error}) = 1
        /\ \A p \in NewPipeLogs :
              pipe_logs[p].error =>
                 /\ pipe_logs[p].node_key = cur
                 /\ pipe_logs[p].completed
                 /\ \A i \in 1..Len(data_block_logs) :
                       data_block_logs[i].pipe_log # p

\* C3: every Worker invocation that returns leaves exactly one more PipeLog row,
\* also when it bound no block and the pipe returned None.
C3_OnePipeLogPerInvocation ==
    [][(pc = "run" /\ raised' = "none") => Len(pipe_logs') = Len(pipe_logs) + 1]_vars

C5_SecondRunWritesNothing ==
    (pc = "done" /\ cur \in quiet) =>
        /\ NewRows = {}
        /\ raised = "none"
        /\ last_output = 0

\* C5 amended: the same for every node whose pipe declares at least one input
\* slot; a pipe without input slots is invoked once by every call.
C5_SecondRunOfConsumerWritesNothing ==
    (pc = "done" /\ cur \in quiet /\ Len(Inputs(cur)) > 0) =>
        /\ NewRows = {}
        /\ raised = "none"
        /\ last_output = 0

\* C5 witness: a second call of a consumer that had consumed a block has ended.
C5_Witness ==
    /\ pc = "done" /\ cur \in quiet /\ Len(Inputs(cur)) > 0
    /\ \E b \in 1..Len(blocks) : InputRows(cur, b) # {}

\* C6: a call with to_exhaustion of a node without input slots invokes the pipe
\* exactly once: its first binding succeeds, and the Worker invocation that
\* follows is the first and the last of the call; if it yields a block, the
\* call has written exactly one PipeLog row and exactly one DataBlockLog row,
\* an OUTPUT row of that PipeLog for the returned block.
C6_SourceRunsOnce ==
    [][(to_exhaustion /\ Len(Inputs(cur)) = 0) =>
          /\ pc = "bind" => (pc' = "run" /\ n_runs = 0)
          /\ pc = "run" =>
                /\ n_runs = 0
                /\ pc' = "done"
                /\ last_output' # 0 =>
                      /\ Len(pipe_logs') = start.pipe_logs + 1
                      /\ Len(data_block_logs') = start.data_block_logs + 1
                      /\ pipe_logs'[Len(pipe_logs')].node_key = cur
                      /\ data_block_logs'[Len(data_block_logs')] =
                            [pipe_log |-> Len(pipe_logs'),
                             data_block |-> last_output',
                             direction |-> "OUTPUT", slot |-> "",
                             processed_at |-> now']]_vars

\* C6 witness: a call with to_exhaustion of a source node ended with a block.
C6_Witness ==
    pc = "done" /\ to_exhaustion /\ Len(Inputs(cur)) = 0 /\ last_output # 0

\* Some required DataBlock slot of node has no unprocessed upstream block.
RequiredDataBlockSlotEmpty(node) ==
    \E k \in 1..Len(Inputs(node)) :
        /\ Inputs(node)[k].cls = "DataBlock"
        /\ ~Inputs(node)[k].is_optional
        /\ FilterUnprocessed(UpstreamBlocks(Inputs(node)[k].input_node), node,
                             Inputs(node)[k].is_self_ref) = {}

\* C7: the first binding of a call with to_exhaustion of a node with a required
\* DataBlock slot whose upstream has no unprocessed block ends the call: no
\* invocation, no PipeLog row written, nothing raised, None returned.
C7_EmptyRequiredInputEndsCall ==
    [][(pc = "bind" /\ to_exhaustion /\ n_runs = 0
            /\ RequiredDataBlockSlotEmpty(cur)) =>
          /\ pc' = "done"
          /\ n_runs' = 0
          /\ raised' = "none"
          /\ last_output' = 0
          /\ Len(pipe_logs') = start.pipe_logs
          /\ Len(data_block_logs') = start.data_block_logs]_vars

\* C7 witness: such a call ended, for a node whose upstream does hold blocks.
C7_Witness ==
    /\ pc = "done" /\ to_exhaustion /\ n_runs = 0 /\ raised = "none"
    /\ RequiredDataBlockSlotEmpty(cur)
    /\ \E k \in 1..Len(Inputs(cur)) : UpstreamBlocks(Inputs(cur)[k].input_node) # {}

\* Blocks of the upstream of node's first slot that were unprocessed for node
\* when the running call started.
UnprocessedAtStart(node) ==
    {b \in UpstreamBlocks(Inputs(node)[1].input_node) :
        \A i \in 1..start.data_block_logs :
            ~(data_block_logs[i].data_block = b /\ NodeOf(i) = node)}

\* C8: a call with to_exhaustion of a node whose only slot is a required,
\* non-self_ref DataBlock slot, ending without an exception, has invoked the
\* pipe once per block that was unprocessed at its start, has written exactly
\* one INPUT row for each of these blocks and exactly one OUTPUT row for each
\* block it created, and a binding made right after it finds nothing to bind.
C8_OneInvocationPerUnprocessedBlock ==
    (pc = "done" /\ to_exhaustion /\ raised = "none"
        /\ SingleRequiredDataBlock(cur)) =>
        /\ n_runs = Cardinality(UnprocessedAtStart(cur))
        /\ Cardinality(NewPipeLogs) = n_runs
        /\ \A b \in UnprocessedAtStart(cur) :
              Cardinality({i \in NewRows : /\ data_block_logs[i].direction = "INPUT"
                                           /\ data_block_logs[i].data_block = b}) = 1
        /\ \A i \in NewRows :
              /\ NodeOf(i) = cur
              /\ data_block_logs[i].direction = "INPUT" =>
                    data_block_logs[i].data_block \in UnprocessedAtStart(cur)
              /\ data_block_logs[i].direction = "OUTPUT" =>
                    data_block_logs[i].data_block \in NewBlocks
        /\ \A b \in NewBlocks :
              Cardinality({i \in NewRows : /\ data_block_logs[i].direction = "OUTPUT"
                                           /\ data_block_logs[i].data_block = b}) = 1
        /\ GetInputDataBlocks(cur).status # "ok"

\* C8 witness: such a call ended after two invocations, one of which created a block.
C8_Witness ==
    /\ pc = "done" /\ to_exhaustion /\ raised = "none"
    /\ SingleRequiredDataBlock(cur)
    /\ n_runs = 2
    /\ NewBlocks # {}

C10_ReturnsLastProducedBlock ==
    (pc = "done" /\ raised = "none") => last_output = last_produced

\* The block each slot of node is given by a binding made now
Picks(node) ==
    [k \in 1..Len(Inputs(node)) |-> GetInputDataBlock(node, Inputs(node)[k])]

\* Does slot k of node have new work: a DataBlock slot when a block is bound
\* to it, a DataSet slot when its bound block is unprocessed for node.
Contributes(node, k) ==
    LET b == Picks(node)[k]
    IN  IF Inputs(node)[k].cls = "DataBlock" THEN b # 0
        ELSE b # 0 /\ IsUnprocessed(b, node)

\* C11: a binding in which no required slot is empty fails with "all inputs
\* exhausted" exactly when some block was bound and no slot contributes new
\* work; an optional DataBlock slot that is empty contributes nothing.
C11_AllExhaustedIffNoNewWork ==
    (pc = "bind" /\ \A k \in 1..Len(Inputs(cur)) :
                        ~(Picks(cur)[k] = 0 /\ ~Inputs(cur)[k].is_optional)) =>
        (GetInputDataBlocks(cur).status = "all_exhausted" <=>
            /\ \E k \in 1..Len(Inputs(cur)) : Picks(cur)[k] # 0
            /\ \A k \in 1..Len(Inputs(cur)) : ~Contributes(cur, k))

\* The non-optional DataBlock parameters of a signature
RequiredDataBlockSlots(inputs) ==
    {k \in 1..Len(inputs) : inputs[k].cls = "DataBlock" /\ ~inputs[k].is_optional}

\* C12: the interface of a pipe is constructed if and only if at most one of
\* its parameters is a non-optional DataBlock; when it is not constructed the
\* node does not exist and no call, invocation or PipeLog of it ever occurs.
C12_TwoRequiredDataBlocksRejected ==
    /\ NodeCreated <=> Cardinality(RequiredDataBlockSlots(iface)) <= 1
    /\ Cardinality(RequiredDataBlockSlots(iface)) >= 2 =>
          /\ "n" \notin GraphNodes
          /\ cur # "n"
          /\ dfl.node_key # "n"
          /\ \A p \in 1..Len(pipe_logs) : pipe_logs[p].node_key # "n"

\* C12 witness: the graph of a rejected three-parameter pipe has run its source
\* to a block, with no node for the pipe.
C12_Witness ==
    /\ iface = SplitRequiredInputs
    /\ ~NodeCreated
    /\ pc = "done" /\ last_output # 0

\* A call with to_exhaustion of the accumulator node that started with two
\* unprocessed blocks on `new` has ended without an exception.
AccCallEnded ==
    /\ pc = "done" /\ cur = "n" /\ to_exhaustion /\ raised = "none"
    /\ Cardinality(UnprocessedAtStart("n")) = 2

\* ... and it ran two iterations, the second with `this` bound to the block
\* the first returned, if it returned one.
AccRanTwice ==
    /\ n_runs = 2
    /\ Len(pipe_logs) = start.pipe_logs + 2
    /\ \A i \in NewRows :
          (data_block_logs[i].pipe_log = start.pipe_logs + 1
              /\ data_block_logs[i].direction = "OUTPUT") =>
          \E j \in NewRows :
              /\ data_block_logs[j].pipe_log = start.pipe_logs + 2
              /\ data_block_logs[j].direction = "INPUT"
              /\ data_block_logs[j].slot = "this"
              /\ data_block_logs[j].data_block = data_block_logs[i].data_block

\* C13 as stated: the pipe acc(this: DataBlock[T], new: DataBlock[T]) is
\* constructed, and its call with two new blocks on `new` runs two iterations,
\* the second with `this` bound to the output of the first.
C13_AccAsWritten ==
    iface = AccLiteralInputs =>
        /\ NodeCreated
        /\ AccCallEnded => AccRanTwice

\* C13 amended: the same for acc(new: DataBlock[T], this: DataBlock[T] = None),
\* whose `this` is optional by its default.
C13_AccWithOptionalThis ==
    iface = AccInputs =>
        /\ NodeCreated
        /\ AccCallEnded => AccRanTwice

\* C13 witness: such a call ended after a first iteration that returned a
\* block and a second one that was given it as `this`.
C13_Witness ==
    /\ iface = AccInputs
    /\ AccCallEnded
    /\ \E i, j \in NewRows :
          /\ data_block_logs[i].pipe_log = start.pipe_logs + 1
          /\ data_block_logs[i].direction = "OUTPUT"
          /\ data_block_logs[j].pipe_log = start.pipe_logs + 2
          /\ data_block_logs[j].slot = "this"
          /\ data_block_logs[j].data_block = data_block_logs[i].data_block

\* is_generic(otype_like): a single capital letter
IsGeneric(otype_like) == otype_like \in {"T"}

\* C14: in every binding that succeeded, the blocks bound to slots carrying
\* the same generic label have the same schema.
C14_GenericSlotsShareSchema ==
    pc = "run" =>
        \A k1, k2 \in 1..Len(Inputs(cur)) :
            (/\ IsGeneric(Inputs(cur)[k1].otype_like)
             /\ Inputs(cur)[k1].otype_like = Inputs(cur)[k2].otype_like
             /\ bound[k1] # 0 /\ bound[k2] # 0) =>
                blocks[bound[k1]].schema = blocks[bound[k2]].schema

\* Blocks that a PipeLog of node up logged as OUTPUT and that no PipeLog of
\* node d has logged as INPUT
Unconsumed(d, up) ==
    {b \in 1..Len(blocks) :
        /\ Logged(pipe_logs, data_block_logs, up, b, "OUTPUT")
        /\ ~Logged(pipe_logs, data_block_logs, d, b, "INPUT")}

\* The DataBlock slots of node d that are connected to node up
DataBlockSlotsOn(d, up) ==
    {k \in 1..Len(Inputs(d)) :
        Inputs(d)[k].cls = "DataBlock" /\ Inputs(d)[k].input_node = up}

\* Every block that d consumed through its slot k is older than every block of
\* that slot's upstream that d has not consumed.
ConsumedInOrder(d, k) ==
    LET oldest == SetMin(Unconsumed(d, Inputs(d)[k].input_node))
    IN  oldest # 0 =>
            \A i \in 1..Len(data_block_logs) :
                (/\ data_block_logs[i].direction = "INPUT"
                 /\ data_block_logs[i].slot = Inputs(d)[k].name
                 /\ NodeOf(i) = d) =>
                    data_block_logs[i].data_block < oldest

\* C15: the block B returned by a successful invocation of node U is, right
\* after it, in the input stream of every DataBlock slot connected to U, which
\* a binding then fills; a binding of node D gives each DataBlock slot the
\* oldest block of its upstream that D has not logged as INPUT, so B stays
\* bindable until D logs it and is bound before any later block of U: after
\* every invocation, what each slot has consumed is older than what waits.
C15_OutputVisibleDownstreamInOrder ==
    [][/\ (pc = "run" /\ last_output' # 0) =>
             \A d \in GraphNodes : \A k \in DataBlockSlotsOn(d, cur) :
                 /\ last_output' \in Unconsumed(d, cur)'
                 /\ GetInputDataBlock(d, Inputs(d)[k])' # 0
       /\ (pc = "bind" /\ pc' = "run") =>
             \A k \in 1..Len(Inputs(cur)) :
                 Inputs(cur)[k].cls = "DataBlock" =>
                     LET waiting == Unconsumed(cur, Inputs(cur)[k].input_node)
                     IN  /\ waiting # {} => bound'[k] \in waiting
                         /\ \A b \in waiting : bound'[k] <= b
       /\ pc = "run" =>
             \A d \in GraphNodes : \A k \in 1..Len(Inputs(d)) :
                 Inputs(d)[k].cls = "DataBlock" => ConsumedInOrder(d, k)']_vars

\* C15 witness: a node is bound to the older of two blocks of its upstream
\* that it has not consumed, after having consumed one.
C15_Witness ==
    /\ pc = "run" /\ cur = "n"
    /\ \E k \in DataBlockSlotsOn("n", "src") :
          /\ Cardinality(Unconsumed("n", "src")) = 2
          /\ bound[k] = SetMin(Unconsumed("n", "src"))
          /\ \E b \in 1..Len(blocks) : b < bound[k] /\ InputRows("n", b) # {}

\* C16: no two DataBlockLog rows of one PipeLog have the same block and the
\* same direction.
C16_BlockLoggedOncePerPipeLog ==
    \A i, j \in 1..Len(data_block_logs) :
        (/\ data_block_logs[i].pipe_log = data_block_logs[j].pipe_log
         /\ data_block_logs[i].data_block = data_block_logs[j].data_block
         /\ data_block_logs[i].direction = data_block_logs[j].direction) => i = j

\* C17 as stated: a block bound to a slot of a node by a binding that
\* succeeded has no INPUT row of that node, unless the slot is self_ref.
C17_ProcessedBlockNeverBoundAgain ==
    pc = "run" =>
        \A k \in 1..Len(Inputs(cur)) :
            (bound[k] # 0 /\ ~Inputs(cur)[k].is_self_ref) =>
                ~Logged(pipe_logs, data_block_logs, cur, bound[k], "INPUT")

\* C17 amended: the same, unless the slot is self_ref or a DataSet slot (which
\* is given the most recent dataset block, consumed or not).
C17_ProcessedBlockNeverBoundAgainToDataBlockSlot ==
    pc = "run" =>
        \A k \in 1..Len(Inputs(cur)) :
            (bound[k] # 0 /\ ~Inputs(cur)[k].is_self_ref
                /\ Inputs(cur)[k].cls # "DataSet") =>
                ~Logged(pipe_logs, data_block_logs, cur, bound[k], "INPUT")

\* C17 witness: a node that has consumed a block through a DataBlock slot
\* that is not self_ref is bound to another block through it, in a later call.
C17_Witness ==
    /\ pc = "run" /\ n_runs = 0
    /\ \E k \in 1..Len(Inputs(cur)) :
          /\ Inputs(cur)[k].cls = "DataBlock" /\ ~Inputs(cur)[k].is_self_ref
          /\ bound[k] # 0
          /\ \E b \in 1..Len(blocks) :
                InputRowsOfSlot(cur, b, Inputs(cur)[k].name) # {}

\* C18: every PipeLog row, and the log object of the latest invocation that
\* ended, has completed_at set and not before started_at; the object's error is
\* set if and only if the invocation ended by an exception.
C18_PipeLogsCompleteAndTimed ==
    /\ \A p \in 1..Len(pipe_logs) :
          /\ pipe_logs[p].completed
          /\ pipe_logs[p].completed_at >= pipe_logs[p].started_at
    /\ dfl # NoLog =>
          /\ dfl.completed
          /\ dfl.completed_at >= dfl.started_at
          /\ dfl.error <=> raised \in {"PipeFailure", "ConversionFailure"}

\* C18 witness: an invocation that took time has failed, after one that took
\* time had left its PipeLog row.
C18_Witness ==
    /\ pc = "done" /\ raised = "PipeFailure"
    /\ dfl.error /\ dfl.completed_at > dfl.started_at
    /\ \E p \in 1..Len(pipe_logs) :
          pipe_logs[p].completed_at > pipe_logs[p].started_at

\* Positions in ctx.runtimes of the runtimes whose class is among the pipe's
\* compatible runtime classes
CompatiblePositions ==
    {i \in 1..Len(setup.runtimes) :
        setup.runtimes[i].runtime_class \in setup.compatible_runtime_classes}

\* C19: a call runs on the runtime of ctx.runtimes at the first position whose
\* class is compatible, which is the runtime_url of its PipeLogs; with no such
\* position the call ends at once with NoCompatibleRuntime, having invoked no
\* pipe and written no PipeLog, DataBlockLog or block.
C19_FirstCompatibleRuntimeOrNothing ==
    pc # "idle" =>
        IF CompatiblePositions = {}
        THEN /\ pc = "done" /\ raised = "NoCompatibleRuntime"
             /\ n_runs = 0 /\ dfl = NoLog /\ last_output = 0
             /\ Len(pipe_logs) = start.pipe_logs
             /\ Len(data_block_logs) = start.data_block_logs
             /\ Len(blocks) = start.blocks
        ELSE /\ raised # "NoCompatibleRuntime"
             /\ runtime = setup.runtimes[SetMin(CompatiblePositions)]
             /\ \A p \in NewPipeLogs : pipe_logs[p].runtime_url = runtime.url
             /\ dfl # NoLog => dfl.runtime_url = runtime.url

\* C19 witness: a call has produced a block on the second runtime of the list,
\* the first one being of a class the pipe is not compatible with.
C19_Witness ==
    /\ pc = "done" /\ last_output # 0
    /\ Len(setup.runtimes) = 2
    /\ CompatiblePositions = {2}
    /\ runtime = setup.runtimes[2]

\* C20: a call that ends with an exception has written, since it started, the
\* PipeLog of the failing invocation, with error set and completed_at set.
C20_ErrorAfterPipeLogFinalized ==
    (pc = "done" /\ raised # "none") =>
        \E p \in NewPipeLogs :
            /\ pipe_logs[p].node_key = cur
            /\ pipe_logs[p].error
            /\ pipe_logs[p].completed

\* ---------------------------------------------------------------- C21
\* C21: an invocation whose pipe returns an output that is not None while
\* target_storage is unset fails with the missing-target-storage error, writes
\* no OUTPUT and no INPUT row and leaves its bound input blocks unprocessed;
\* an invocation whose pipe returns None succeeds whatever target_storage is.
C21_OutputNeedsTargetStorage ==
    [][pc = "run" =>
         /\ (target_storage = "" /\ returned' \notin {"none", "raise"}) =>
               /\ raised' = "MissingTargetStorage"
               /\ pc' = "done"
               /\ blocks' = blocks
               /\ data_block_logs' = data_block_logs
               /\ \A k \in 1..Len(bound) :
                     (bound[k] # 0 /\ IsUnprocessed(bound[k], cur))
                         => IsUnprocessed(bound[k], cur)'
         /\ returned' = "none" =>
               /\ raised' = "none"
               /\ pc' \in {"bind", "done"}
               /\ \A k \in 1..Len(bound) :
                     bound[k] # 0 => ~IsUnprocessed(bound[k], cur)']_vars

\* C21 witness: a call without target storage failed on a pipe that returned
\* an output, with a bound block that is still unprocessed.
C21_Witness ==
    /\ pc = "done" /\ raised = "MissingTargetStorage" /\ cur = "n"
    /\ returned = "payload"
    /\ Len(bound) = 1 /\ bound[1] # 0 /\ IsUnprocessed(bound[1], "n")

\* ---------------------------------------------------------------- C22
\* The conformance table: is a returned value accepted for the declared
\* output class?  A payload is a value of the declared class.
Accepted(cls, value) ==
    CASE value = "payload"      -> TRUE
      [] value = "records_list" -> cls = "DataBlock"
      [] value \in {"generator", "empty_generator"} -> cls = "RecordsListGenerator"
      [] OTHER                  -> FALSE

\* C22: a returned value that the conformance table does not accept for the
\* pipe's declared output class (a generator under a class that is not a
\* generator class, a records list under DataSet) is rejected: the invocation
\* fails, no output block is created and no OUTPUT row is written.
C22_UnacceptedOutputRejected ==
    [][(/\ pc = "run"
        /\ target_storage # ""
        /\ returned' \in {"records_list", "generator", "empty_generator"}
        /\ ~Accepted(OutputClass(cur), returned'))
       => /\ raised' # "none"
          /\ blocks' = blocks
          /\ data_block_logs' = data_block_logs]_vars

\* ---------------------------------------------------------------- C23
\* The names of the parameters that are not self-references
NonSelfRefNames == {iface[i].name : i \in {j \in 1..Len(iface) : ~iface[j].is_self_ref}}

\* C23: assign_inputs accepts a name-keyed map exactly when its key set minus
\* "this" equals the set of names of the slots that are not self-references
\* (optional ones included) and returns the map unchanged; it accepts a single
\* value that is not a map exactly when the pipe has exactly one slot that is
\* not a self-reference, and maps that slot's name to the value; every other
\* input is rejected.
C23_AssignInputsAcceptsExactly ==
    (arg.fn = "assign_inputs" /\ result # NoResult) =>
        IF arg.inputs.kind = "map"
        THEN /\ result.status = "ok"
                  <=> (DOMAIN arg.inputs.map) \ {"this"} = NonSelfRefNames
             /\ result.status = "ok" => result.declared_inputs = arg.inputs.map
        ELSE /\ result.status = "ok" <=> Cardinality(NonSelfRefNames) = 1
             /\ result.status = "ok" =>
                   /\ DOMAIN result.declared_inputs = NonSelfRefNames
                   /\ \A k \in NonSelfRefNames :
                         result.declared_inputs[k] = arg.inputs.node

\* C23 witness: the accumulator, whose second parameter is the self-reference,
\* was given one node and its map without "this", and both were accepted.
C23_Witness ==
    /\ arg.fn = "assign_inputs" /\ result # NoResult /\ result.status = "ok"
    /\ iface = AccInputs
    /\ arg.inputs.kind = "map" /\ DOMAIN arg.inputs.map = {"new"}

\* ---------------------------------------------------------------- C24
\* Is the annotation written Optional[...]?
WrittenOptional(annotation) ==
    Len(annotation) >= 2 /\ annotation[1] = "Optional" /\ annotation[2] = "["

\* C24: a parsed slot is optional if and only if its parameter has a default
\* value or its annotation is written Optional[...]; so a parameter annotated
\* Optional[DataBlock[T]] without a default gives a slot on which an empty
\* stream is not a required input that is empty.
C24_OptionalIffDefaultOrHint ==
    (arg.fn = "from_parameter" /\ result # NoResult /\ result.status = "ok") =>
        /\ result.annotation.is_optional
              <=> (arg.parameter.has_default
                      \/ WrittenOptional(arg.parameter.annotation))
        /\ WrittenOptional(arg.parameter.annotation)
              => ~RequiredEmpty(result.annotation, 0)

\* ---------------------------------------------------------------- C25
\* C25: within one invocation the PipeLog is created, with started_at, before
\* any DataBlockLog row of the invocation is written, and an OUTPUT row is
\* written only after the pipe callable returned without raising; across the
\* iterations of one execute call the intervals [started_at, completed_at] of
\* the PipeLogs do not overlap.
C25_InvocationOrder ==
    [][pc = "run" =>
         LET added == (Len(data_block_logs) + 1)..Len(data_block_logs')
             own   == Len(pipe_logs')
         IN  /\ \A i \in added :
                   LET row == data_block_logs'[i]
                   IN  /\ row.pipe_log = own
                       /\ own = Len(pipe_logs) + 1
                       /\ pipe_logs'[own].node_key = cur
                       /\ pipe_logs'[own].started_at <= row.processed_at
                       /\ row.processed_at <= pipe_logs'[own].completed_at
                       /\ row.direction = "OUTPUT" =>
                             /\ returned' \notin {"raise", "none", "unset"}
                             /\ raised' = "none"
             /\ own > Len(pipe_logs) =>
                   /\ pipe_logs'[own].started_at <= pipe_logs'[own].completed_at
                   /\ \A p \in NewPipeLogs :
                         /\ pipe_logs'[p] = pipe_logs[p]
                         /\ pipe_logs[p].completed_at <= pipe_logs'[own].started_at]_vars

\* C25 witness: one call ran two iterations that each took time, the second
\* starting when the first completed, and wrote its rows in between.
C25_Witness ==
    /\ pc = "done" /\ cur = "n" /\ to_exhaustion
    /\ \E p, q \in NewPipeLogs :
          /\ p < q
          /\ pipe_logs[p].started_at < pipe_logs[p].completed_at
          /\ pipe_logs[p].completed_at = pipe_logs[q].started_at
          /\ pipe_logs[q].started_at < pipe_logs[q].completed_at
    /\ \E i \in NewRows :
          /\ data_block_logs[i].direction = "OUTPUT"
          /\ data_block_logs[i].processed_at > pipe_logs[data_block_logs[i].pipe_log].started_at

\* ---------------------------------------------------------------- C26
\* C26: if a required slot yields no block, binding fails as a required input
\* that is empty, wherever the slot stands and whatever the other slots yield;
\* binding reports that all inputs are exhausted only when every required slot
\* yielded a block.
C26_RequiredEmptyWhateverTheOrder ==
    pc = "bind" =>
        LET slots  == Inputs(cur)
            yields == [k \in 1..Len(slots) |-> GetInputDataBlock(cur, slots[k])]
            status == GetInputDataBlocks(cur).status
        IN  /\ (\E k \in 1..Len(slots) : ~slots[k].is_optional /\ yields[k] = 0)
                  => status = "required_empty"
            /\ status = "all_exhausted"
                  => \A k \in 1..Len(slots) : ~slots[k].is_optional => yields[k] # 0

\* C26 witness: the required slot is the last one, it yields nothing, and the
\* optional slot before it yields a block.
C26_Witness ==
    /\ pc = "bind" /\ cur = "n" /\ iface = OptJoinInputs
    /\ GetInputDataBlock("n", iface[1]) # 0
    /\ GetInputDataBlock("n", iface[2]) = 0
    /\ GetInputDataBlocks("n").status = "required_empty"

\* ---------------------------------------------------------------- C27
\* C27: when the pipe returns None, or a generator that yields nothing under
\* a declared generator class, no DataBlock is created and no OUTPUT row is
\* written, but one INPUT row is written for each bound slot, so the bound
\* blocks count as processed when the node binds next.
C27_EmptyOutputStillConsumes ==
    [][(/\ pc = "run"
        /\ \/ returned' = "none"
           \/ /\ returned' = "empty_generator"
              /\ OutputClass(cur) \in GeneratorClasses
              /\ target_storage # "")
       => LET added == (Len(data_block_logs) + 1)..Len(data_block_logs')
              slots == Inputs(cur)
              held  == {k \in 1..Len(bound) : bound[k] # 0}
          IN  /\ raised' = "none"
              /\ blocks' = blocks
              /\ last_output' = 0
              /\ \A i \in added : data_block_logs'[i].direction = "INPUT"
              /\ Cardinality(added) = Cardinality(held)
              /\ \A k \in held :
                    /\ \E i \in added :
                          /\ data_block_logs'[i].data_block = bound[k]
                          /\ data_block_logs'[i].slot = slots[k].name
                          /\ pipe_logs'[data_block_logs'[i].pipe_log].node_key = cur
                    /\ ~IsUnprocessed(bound[k], cur)'
                    /\ slots[k].cls = "DataBlock"
                          => GetInputDataBlock(cur, slots[k])' # bound[k]]_vars

\* C27 witness: a two-slot consumer bound a block to both slots, its pipe
\* returned an empty generator, and the iteration ended without error.
C27_Witness ==
    /\ pc = "done" /\ cur = "n" /\ raised = "none"
    /\ returned = "empty_generator" /\ last_output = 0
    /\ Len(bound) = 2 /\ bound[1] # 0 /\ bound[2] # 0
    /\ Cardinality(NewRows) = 2
    /\ ~IsUnprocessed(bound[1], "n")

\* ---------------------------------------------------------------- C28
\* C28: if the pipe raises in an iteration of an execute call with
\* to_exhaustion, the loop stops there: the call ends with the pipe's
\* exception, no further iteration runs, and no further block is bound or
\* logged by the call.
C28_RaiseStopsTheLoop ==
    [][/\ (pc = "run" /\ to_exhaustion /\ returned' = "raise") =>
             /\ pc' = "done"
             /\ raised' = "PipeFailure"
             /\ n_runs' = n_runs
             /\ data_block_logs' = data_block_logs
       /\ (pc = "done" /\ to_exhaustion /\ raised = "PipeFailure") =>
             /\ pc' = "idle"
             /\ bound' = << >>
             /\ blocks' = blocks
             /\ pipe_logs' = pipe_logs
             /\ data_block_logs' = data_block_logs]_vars

\* C28 witness: the pipe raised in the second iteration of a call with
\* to_exhaustion while a third upstream block was waiting.
C28_Witness ==
    /\ pc = "done" /\ cur = "n" /\ to_exhaustion /\ raised = "PipeFailure"
    /\ n_runs = 1
    /\ Cardinality(Unconsumed("n", "src")) = 2

\* ---------------------------------------------------------------- C29
\* C29: after a failed invocation of node N the blocks it had bound have no
\* INPUT row from that invocation, and the next execute of N binds the same
\* oldest block to its DataBlock slot again: what N would bind is the failed
\* invocation's block right after the failure, and no invocation of another
\* node changes which block that is.
C29_FailedInputIsRetried ==
    [][/\ (pc = "run" /\ raised' # "none") =>
             \A k \in 1..Len(bound) :
                 /\ bound[k] # 0 =>
                       \A i \in (Len(data_block_logs) + 1)..Len(data_block_logs') :
                           data_block_logs'[i].data_block # bound[k]
                 /\ GetInputDataBlock(cur, Inputs(cur)[k])' = bound[k]
       /\ pc = "run" =>
             \A node \in GraphNodes \ {cur} : \A k \in 1..Len(Inputs(node)) :
                 LET slot == Inputs(node)[k]
                     pick == GetInputDataBlock(node, slot)
                 IN  (slot.cls = "DataBlock" /\ pick # 0)
                         => GetInputDataBlock(node, slot)' = pick]_vars

\* C29 witness: the first invocation of a call of "n" failed on the older of
\* two waiting blocks, and that block is what "n" would bind next.
C29_Witness ==
    /\ pc = "done" /\ cur = "n" /\ raised = "PipeFailure" /\ n_runs = 0
    /\ iface = XformInputs
    /\ Cardinality(Unconsumed("n", "src")) = 2
    /\ bound[1] = SetMin(Unconsumed("n", "src"))
    /\ GetInputDataBlock("n", iface[1]) = bound[1]

\* ---------------------------------------------------------------- C30
\* The blocks of node up that are stored on a storage the context allows
OnAllowedStorage(up) ==
    {b \in 1..Len(blocks) :
        /\ Logged(pipe_logs, data_block_logs, up, b, "OUTPUT")
        /\ blocks[b].storages \cap AllStorages # {}}

\* C30: a DataBlock slot is bound to the oldest block of its upstream that is
\* unprocessed for the node and stored on an allowed storage; a DataSet slot
\* is bound to the newest dataset block of its upstream, processed or not;
\* over one execute call to exhaustion a DataBlock slot receives the upstream
\* blocks in creation order.
C30_OldestUnprocessedNewestDataSet ==
    /\ [](pc = "run" =>
            \A k \in 1..Len(bound) :
                LET slot == Inputs(cur)[k]
                IN  IF slot.cls = "DataBlock"
                    THEN bound[k] =
                           SetMin({b \in OnAllowedStorage(slot.input_node) :
                                      ~Logged(pipe_logs, data_block_logs,
                                              cur, b, "INPUT")})
                    ELSE bound[k] =
                           SetMax({b \in OnAllowedStorage(slot.input_node) :
                                      blocks[b].dataset}))
    /\ [][(pc = "bind" /\ pc' = "run" /\ to_exhaustion) =>
             \A k \in 1..Len(bound') :
                 (Inputs(cur)[k].cls = "DataBlock" /\ bound'[k] # 0) =>
                     \A i \in NewRows :
                         (/\ data_block_logs[i].direction = "INPUT"
                          /\ data_block_logs[i].slot = Inputs(cur)[k].name)
                             => data_block_logs[i].data_block < bound'[k]]_vars

\* C30 witness: in its second iteration a join holds the second block of the
\* source on its DataBlock slot and, on its DataSet slot, the newest dataset
\* block, which its first iteration had already consumed.
C30_Witness ==
    /\ pc = "run" /\ cur = "n" /\ iface = JoinInputs /\ to_exhaustion
    /\ n_runs = 1
    /\ bound[1] = 2 /\ bound[2] = 3
    /\ blocks[3].dataset
    /\ ~IsUnprocessed(3, "n")
    /\ ~IsUnprocessed(1, "n")

\* ---------------------------------------------------------------- C31
\* C31: in the bound interface that NodeInterfaceManager returns for a node
\* whose pipe has a self-referencing slot `this`, that slot is connected to
\* the node itself, and a block bound to it is an output block of the node
\* itself.
C31_ThisIsConnectedToTheNode ==
    pc = "run" =>
        LET i == GetBoundInterface(cur, bound)
        IN  \A k \in DOMAIN i :
                i[k].original_annotation.is_self_ref =>
                    /\ i[k].input_node = cur
                    /\ i[k].bound_data_block # 0 =>
                          Logged(pipe_logs, data_block_logs, cur,
                                 i[k].bound_data_block, "OUTPUT")

\* ---------------------------------------------------------------- C32
\* C32: execute on a composite node is rejected before any runtime is
\* selected, any input is bound or any pipe is invoked, and leaves the PipeLog
\* and DataBlockLog tables unchanged.
C32_CompositeNodeRejected ==
    /\ [][(pc = "idle" /\ pc' # "idle" /\ cur' \in setup.composite) =>
             /\ pc' = "done"
             /\ raised' = "NotImplementedError"
             /\ runtime' = NoRuntime
             /\ pipe_logs' = pipe_logs
             /\ data_block_logs' = data_block_logs]_vars
    /\ []((pc # "idle" /\ cur \in setup.composite) =>
             /\ pc = "done"
             /\ runtime = NoRuntime
             /\ bound = << >>
             /\ n_runs = 0 /\ returned = "unset" /\ dfl = NoLog
             /\ Len(pipe_logs) = start.pipe_logs
             /\ Len(data_block_logs) = start.data_block_logs
             /\ Len(blocks) = start.blocks)

\* C32 witness: the composite node was executed while a block of its
\* upstream was waiting and a runtime was available, and the call was rejected.
C32_Witness ==
    /\ pc = "done" /\ cur = "n" /\ cur \in setup.composite
    /\ raised = "NotImplementedError"
    /\ Len(setup.runtimes) > 0
    /\ UpstreamBlocks("src") # {}

\* ---------------------------------------------------------------- C33
\* The declared input of a node that takes one input
InputOf(node) == DeclaredValues(node.declared_inputs)[1]

\* C33: for a composite node with one declared input and a sub-graph of
\* pipes p1..pn, build_composite_nodes returns n sub-nodes forming a linear
\* chain: the first sub-node's input is the composite's declared input, each
\* later sub-node's input is the preceding sub-node, get_input_node resolves
\* to the first leaf and get_output_node to the last leaf; also when the same
\* pipe occurs twice in the sub-graph.
C33_SubNodesFormAChain ==
    (arg.fn = "create_node" /\ result # NoResult) =>
        LET n == result.node
            subs == n.sub_nodes
        IN  /\ Len(subs) = Len(arg.pipe.sub_graph)
            /\ InputOf(subs[1]) = arg.input
            /\ \A k \in 2..Len(subs) : InputOf(subs[k]) = subs[k - 1].key
            /\ \A k \in 1..Len(subs) : subs[k].pipe = arg.pipe.sub_graph[k]
            /\ GetInputNode(n) = GetInputNode(subs[1])
            /\ ~PipeIsComposite(GetInputNode(n).pipe)
            /\ GetOutputNode(n) = GetOutputNode(subs[Len(subs)])
            /\ ~PipeIsComposite(GetOutputNode(n).pipe)

\* ---------------------------------------------------------------- C34
\* C34: Node.get_latest_output returns the block of the most recently
\* created OUTPUT DataBlockLog among the PipeLogs of that node, and None when
\* the node has no OUTPUT log; blocks logged only as INPUT of the node or as
\* OUTPUT of another node are never returned.
C34_LatestOutputOfTheNode ==
    \A node \in Nodes :
        LET b == GetLatestOutput(pipe_logs, data_block_logs, node)
            mine == {i \in 1..Len(data_block_logs) :
                        /\ data_block_logs[i].direction = "OUTPUT"
                        /\ pipe_logs[data_block_logs[i].pipe_log].node_key = node}
        IN  /\ (b = 0) <=> (mine = {})
            /\ b # 0 =>
                 /\ \E i \in mine :
                        /\ data_block_logs[i].data_block = b
                        /\ \A j \in mine : j <= i
                 /\ Logged(pipe_logs, data_block_logs, node, b, "OUTPUT")

\* C34 witness: the node has two OUTPUT rows, its latest row is an INPUT row of
\* another node's block, and the later of its two output blocks is returned.
C34_Witness ==
    \E i, j, k \in 1..Len(data_block_logs) :
        /\ i < j /\ j < k
        /\ \A r \in {i, j, k} : pipe_logs[data_block_logs[r].pipe_log].node_key = "n"
        /\ data_block_logs[i].direction = "OUTPUT"
        /\ data_block_logs[j].direction = "OUTPUT"
        /\ data_block_logs[k].direction = "INPUT"
        /\ data_block_logs[i].data_block # data_block_logs[j].data_block
        /\ ~Logged(pipe_logs, data_block_logs, "n", data_block_logs[k].data_block, "OUTPUT")
        /\ \A r \in 1..Len(data_block_logs) :
               (r > j /\ pipe_logs[data_block_logs[r].pipe_log].node_key = "n")
                   => data_block_logs[r].direction = "INPUT"
        /\ GetLatestOutput(pipe_logs, data_block_logs, "n") = data_block_logs[j].data_block

TypeOK ==
    /\ iface \in Interfaces \cup {SourceInputs, OptJoinInputs}
    /\ now \in 0..MaxClock
    /\ Len(data_block_logs) <= MaxRows
    /\ pc \in {"idle", "bind", "run", "done"}
    /\ cur \in Nodes
    /\ Len(blocks) <= MaxBlocks
    /\ n_runs \in 0..MaxRuns
    /\ \A i \in 1..Len(data_block_logs) :
          /\ data_block_logs[i].pipe_log \in 1..Len(pipe_logs)
          /\ data_block_logs[i].data_block \in 1..Len(blocks)
====
